---- MODULE Spec2Model ----
(***************************************************************************)
(* Model of the NRO plugin loader (src/src/lib.rs): NroFile::open,         *)
(* fix_bss_size, hash and mount, and mount_from_directory.                 *)
(*                                                                         *)
(* The program is single threaded, so its state is the position `pc` of    *)
(* mount_from_directory plus its locals (plugins, the NRR image, modules), *)
(* the raw allocations it made (heap) and the calls it made to the nn::ro  *)
(* runtime (calls).  The directory, the files in it, the answers of the    *)
(* runtime and the build profile are the inputs.                           *)
(*                                                                         *)
(* A u32 that lives in an image is kept as its four little-endian bytes,   *)
(* so the + 0xD0 of fix_bss_size is done at its 32-bit width.              *)
(***************************************************************************)
EXTENDS Integers, Sequences, FiniteSets, TLC

VARIABLES
    pc,              \* position in mount_from_directory
    overflow_checks, \* build profile: are arithmetic overflow checks compiled in
    program_id,      \* argument of mount_from_directory
    dir,             \* the directory at `path`: [readable, entries]
    next_entry,      \* position of the read_dir iterator (entries consumed)
    plugins,         \* Vec<Result<NroFile, LoaderError>>
    heap,            \* every raw allocation made so far, indexed by "pointer"
    nrr,             \* the NRR image (header, shas) once allocated
    submitted,       \* the NRR image as RegisterModuleInfo received it
    calls,           \* the calls made to the external runtime, in order
    modules,         \* outcomes collected so far by the map over plugins
    result,          \* what mount_from_directory returned
    events           \* the steps taken on the images so far, in order: fix-up,
                     \* hashing, registration, size query, load

vars == <<pc, overflow_checks, program_id, dir, next_entry, plugins, heap, nrr,
          submitted, calls, modules, result, events>>

-----------------------------------------------------------------------------
(* Bounds of the model *)

\* longest directory enumerated
MaxEntries == 3

\* largest number of readable plugins the NRR sizing is checked for
MaxModules == 130

\* how many times in a row fix_bss_size is applied to one image when its
\* repetition is examined
MaxFixes == 2

\* length in bytes of the images enumerated
ImageLen == 64

-----------------------------------------------------------------------------
(* Program constants *)

\* alignment of every allocation, and the NRR size granularity
PageSize == 4096

\* size_of::<nn::ro::NrrHeader>(), 0x350
NrrHeaderSize == 848

\* size_of::<Sha256Hash>(), 0x20
Sha256HashSize == 32

\* header.magic, 0x3052524E ("NRR0")
NrrMagic == 810701390

\* the constant fix_bss_size adds, 0xD0
BssFixup == 208

\* offset of the MOD0 header relative to the stored offset, 0x18
ModHeaderBias == 24

\* capacity of nn::ro::Module::Name, the slice module.Name[0..name.len()] is cut from
NameCapacity == 256

-----------------------------------------------------------------------------
(* Bytes and 32-bit little-endian words *)

Byte == 0..255

RECURSIVE AddBytes(_, _)
\* bs + carry, at the width of bs (the carry out of the top byte is dropped)
AddBytes(bs, carry) ==
    IF bs = <<>> THEN <<>>
    ELSE LET s == Head(bs) + carry
         IN  <<s % 256>> \o AddBytes(Tail(bs), s \div 256)

RECURSIVE CarryOut(_, _)
\* whether bs + carry does not fit the width of bs
CarryOut(bs, carry) ==
    IF bs = <<>> THEN carry # 0
    ELSE CarryOut(Tail(bs), (Head(bs) + carry) \div 256)

\* *(ptr.add(off) as *const u32)
ReadU32(data, off) == SubSeq(data, off + 1, off + 4)

\* *(ptr.add(off) as *mut u32) = word
WriteU32(data, off, word) ==
    [i \in 1..Len(data) |->
        IF i > off /\ i <= off + 4 THEN word[i - off] ELSE data[i]]

\* the value of a little-endian u32 (used for offsets, which are small)
U32Value(w) == w[1] + 256 * w[2] + 65536 * w[3] + 16777216 * w[4]

\* the little-endian u32 of a value below 2^31
U32Of(n) == <<n % 256, (n \div 256) % 256, (n \div 65536) % 256, (n \div 16777216) % 256>>

-----------------------------------------------------------------------------
(* NroFile::fix_bss_size *)

\* offset in the image of the MOD0 field bss_end_offset (mod_header.add(3))
BssEndField(data) == U32Value(ReadU32(data, 4)) + ModHeaderBias + 12

\* offset in the image of the MOD0 field module_object_offset (mod_header.add(7))
ModuleObjectField(data) == U32Value(ReadU32(data, 4)) + ModHeaderBias + 28

\* `*mod_header.add(3) += 0xD0` overflows the u32: a panic when overflow checks
\* are compiled in, a wrap-around otherwise
FixOverflows(data) ==
    /\ ReadU32(data, BssEndField(data)) = ReadU32(data, ModuleObjectField(data))
    /\ CarryOut(ReadU32(data, BssEndField(data)), BssFixup)

\* a plausible slip: advances the module-object field instead of bss_end
fix_bss_size_wrong_field(data) ==
    IF ReadU32(data, BssEndField(data)) = ReadU32(data, ModuleObjectField(data))
    THEN WriteU32(data, ModuleObjectField(data),
                  AddBytes(ReadU32(data, ModuleObjectField(data)), BssFixup))
    ELSE data

\* a plausible slip: the addition is made without the comparison
fix_bss_size_unconditional(data) ==
    WriteU32(data, BssEndField(data),
             AddBytes(ReadU32(data, BssEndField(data)), BssFixup))

\* the image after fix_bss_size (when it returns)
fix_bss_size(data) ==
    LET bss_end_offset == ReadU32(data, BssEndField(data))
        module_object_offset == ReadU32(data, ModuleObjectField(data))
    IN  IF bss_end_offset = module_object_offset
        THEN WriteU32(data, BssEndField(data), AddBytes(bss_end_offset, BssFixup))
        ELSE data

-----------------------------------------------------------------------------
(* Sha256Hash *)

RECURSIVE Mix(_, _, _)
\* a weighted sum of the bytes data[lo..hi], by halves
Mix(data, lo, hi) ==
    IF lo > hi THEN 0
    ELSE IF lo = hi THEN (data[lo] + 1) * (2 * lo + 1)
    ELSE LET mid == (lo + hi) \div 2
         IN  (Mix(data, lo, mid) + Mix(data, mid + 1, hi)) % 65521

\* Sha256Hash::new: the 32 bytes nn::crypto::GenerateSha256Hash writes.  The
\* digest itself is the runtime's; the model keeps what the loader relies on:
\* a deterministic function of all the bytes of the image.
Sha256HashNew(data) ==
    LET f == Mix(data, 1, Len(data))
    IN  [k \in 1..Sha256HashSize |-> ((f \div (1 + (k % 5))) * (k + 2) + f) % 256]

\* derived Ord of Sha256Hash([u8; 0x20]): lexicographic on the bytes
HashLess(a, b) ==
    \E k \in 1..Sha256HashSize :
        /\ a[k] < b[k]
        /\ \A j \in 1..(k - 1) : a[j] = b[j]

HashLeq(a, b) == a = b \/ HashLess(a, b)

RECURSIVE Insert(_, _)
Insert(sorted, h) ==
    IF sorted = <<>> THEN <<h>>
    ELSE IF HashLess(h, Head(sorted)) THEN <<h>> \o sorted
    ELSE <<Head(sorted)>> \o Insert(Tail(sorted), h)

RECURSIVE SortFrom(_, _)
SortFrom(done, rest) ==
    IF rest = <<>> THEN done ELSE SortFrom(Insert(done, Head(rest)), Tail(rest))

\* a plausible slip: the table is left in discovery order
sort_omitted(shas) == shas

\* shas.sort(): a stable ascending sort
sort(shas) == SortFrom(<<>>, shas)

-----------------------------------------------------------------------------
(* align_up! *)

RECURSIVE AndNot(_, _)
\* x & !m, bit by bit
AndNot(x, m) ==
    IF x = 0 THEN 0
    ELSE 2 * AndNot(x \div 2, m \div 2) + (IF m % 2 = 1 THEN 0 ELSE x % 2)

\* a plausible slip: the + (a - 1) is forgotten, which rounds down
align_down(x, a) == AndNot(x, a - 1)

\* align_up!(x, a) == ((x + (a - 1)) & !(a - 1))
align_up(x, a) == AndNot(x + (a - 1), a - 1)

-----------------------------------------------------------------------------
(* LoaderError, and the values held in the results *)

IO == [tag |-> "IO", code |-> 0]
RegistrationError(rc) == [tag |-> "RegistrationError", code |-> rc]
MountError(rc) == [tag |-> "MountError", code |-> rc]
InvalidModuleBuffer(rc) == [tag |-> "InvalidModuleBuffer", code |-> rc]

NoName == [text |-> "", len |-> 0]
NoModule == [Name |-> NoName, image |-> 0, bss |-> 0]

\* an element of MountInfo.modules
ModuleOk(module) == [tag |-> "Ok", code |-> 0, module |-> module]
ModuleErr(e) == [tag |-> e.tag, code |-> e.code, module |-> NoModule]

\* an element of plugins
PluginOk(data, name) == [ok |-> TRUE, data |-> data, name |-> name]
PluginErr == [ok |-> FALSE, data |-> <<>>, name |-> NoName]

NoResult == [tag |-> "none", code |-> 0]
ResultOk == [tag |-> "Ok", code |-> 0]

-----------------------------------------------------------------------------
(* std::alloc *)

Buffer(kind, size, bytes) ==
    [kind |-> kind, size |-> size, align |-> PageSize, bytes |-> bytes,
     state |-> "allocated", frees |-> 0, free_size |-> 0]

\* alloc::alloc(layout) / alloc::alloc_zeroed(layout): the new block is heap[Len(heap) + 1]
alloc(h, kind, size, bytes) == Append(h, Buffer(kind, size, bytes))

\* What a dealloc may do with a block when it is handed a layout other than the
\* one the block was allocated with (undefined behaviour of GlobalAlloc::dealloc):
\* an allocator that ignores the size frees the block, one that files blocks by
\* size does not give it back.
DeallocUB == {"released", "corrupt"}

\* alloc::dealloc(ptr, layout), every allocation here having the same alignment
dealloc(h, ptr, size, ub) ==
    [h EXCEPT ![ptr] =
        [@ EXCEPT !.state = IF h[ptr].size = size /\ h[ptr].state = "allocated"
                            THEN "released" ELSE ub,
                  !.frees = @ + 1,
                  !.free_size = size]]

\* the runtime keeps the block of a module it loaded
transfer(h, ptr) == [h EXCEPT ![ptr] = [@ EXCEPT !.state = "transferred"]]

-----------------------------------------------------------------------------
(* Inputs *)

\* the bytes of an image with its MOD0 offset and the two MOD0 fields set.
\* Every image enumerated holds both fields inside its buffer: fix_bss_size
\* reads and writes them unchecked, and an image too short for them takes it
\* outside the buffer.
MkImage(off, bss_end, module_object) ==
    LET filler == [i \in 1..ImageLen |-> (i * 7 + 3) % 256]
    IN  WriteU32(WriteU32(WriteU32(filler, 4, U32Of(off)),
                          off + ModHeaderBias + 12, bss_end),
                 off + ModHeaderBias + 28, module_object)

\* 0x100, 0x1D0, 0xFF (carry into the second byte), 0, 0xFFFFFF2F (largest that
\* fits) and 0xFFFFFF30 (smallest that overflows)
FieldWords ==
    {<<0, 1, 0, 0>>, <<208, 1, 0, 0>>, <<255, 0, 0, 0>>, <<0, 0, 0, 0>>,
     <<47, 255, 255, 255>>, <<48, 255, 255, 255>>}

ModOffsets == {0, 8}

\* every image the fix-up is examined on
AllImages == {MkImage(off, b, m) : off \in ModOffsets, b \in FieldWords, m \in FieldWords}

ShortName(text) == [text |-> text, len |-> 5]
LongName == [text |-> "long", len |-> NameCapacity + 1]

Entry(entry_ok, valid, readable, data, name) ==
    [entry_ok |-> entry_ok, valid |-> valid, readable |-> readable,
     data |-> data, name |-> name]

\* a readable plugin file
File(data, name) == Entry(TRUE, TRUE, TRUE, data, name)

\* the directory entries enumerated: an entry read_dir fails on, a file the
\* validator rejects, an unreadable file, a file needing the fix-up, one that
\* does not, a copy of the first, one whose fix-up overflows, and one whose
\* name does not fit Module::Name
Entries ==
    { Entry(FALSE, FALSE, FALSE, <<>>, NoName),
      Entry(TRUE, FALSE, TRUE, <<>>, ShortName("x.txt")),
      Entry(TRUE, TRUE, FALSE, <<>>, ShortName("u.nro")),
      File(MkImage(8, <<0, 1, 0, 0>>, <<0, 1, 0, 0>>), ShortName("a.nro")),
      File(MkImage(0, <<0, 1, 0, 0>>, <<208, 1, 0, 0>>), ShortName("b.nro")),
      File(MkImage(8, <<0, 1, 0, 0>>, <<0, 1, 0, 0>>), ShortName("c.nro")),
      File(MkImage(8, <<48, 255, 255, 255>>, <<48, 255, 255, 255>>), ShortName("w.nro")),
      File(MkImage(0, <<0, 0, 0, 0>>, <<255, 0, 0, 0>>), LongName) }

\* a directory holds each of its entries once
Directories ==
    {s \in UNION {[1..n -> Entries] : n \in 0..MaxEntries} :
        \A i, j \in DOMAIN s : s[i] = s[j] => i = j}

\* status codes of the runtime, 0 being success: those RegisterModuleInfo,
\* GetBufferSize and LoadModule answer with
RegisterStatus == {0, 25, 42}
SizeStatus == {0, 25}
LoadStatus == {0, 42}

\* sizes GetBufferSize may report: the length of the image, or another
BssSizes == {ImageLen, 2 * ImageLen}

ProgramIds == {7}

-----------------------------------------------------------------------------
(* The NRR image *)

NoNrr ==
    [ptr |-> 0, magic |-> 0, program_id |-> 0, size |-> 0, type_ |-> 0,
     hashes_offset |-> 0, num_hashes |-> 0, shas |-> <<>>]

IsOk(plugin) == plugin.ok

\* plugins.iter().filter(|plugin| plugin.is_ok()).count()
CountOk(ps) == Len(SelectSeq(ps, IsOk))

\* image_size
NrrImageSize(num_modules) ==
    align_up(NrrHeaderSize + num_modules * Sha256HashSize, PageSize)

ZeroHash == [k \in 1..Sha256HashSize |-> 0]

\* a plausible slip: the loop over the Ok plugins stops one short, which
\* leaves the last entry of the zeroed table as it was
Hashes_but_last(ps) ==
    LET oks == SelectSeq(ps, IsOk)
    IN  [count \in 1..Len(oks) |->
            IF count = Len(oks) THEN ZeroHash ELSE Sha256HashNew(oks[count].data)]

\* the hashes of the Ok plugins, in the order of plugins
Hashes(ps) ==
    LET oks == SelectSeq(ps, IsOk)
    IN  [count \in 1..Len(oks) |-> Sha256HashNew(oks[count].data)]

-----------------------------------------------------------------------------
(* mount_from_directory *)

\* a plausible slip: the new element goes to the front
push_front(vec, x) == <<x>> \o vec

\* Vec::push
push(vec, x) == Append(vec, x)

\* a step taken on plugins[who] (who = 0 for the registration of the batch),
\* with the bytes of the image the step sees
Event(ev, who, data) == [ev |-> ev, who |-> who, data |-> data]

\* the indices of the Ok plugins, in order
OkIndices(ps) ==
    LET Index == [k \in 1..Len(ps) |-> k]
        OkAt(k) == ps[k].ok
    IN  SelectSeq(Index, OkAt)

\* a plausible slip: the image is pushed as it was read
open_without_fix(entry, k) ==
    [plugin |-> PluginOk(entry.data, entry.name), events |-> <<>>]

\* NroFile::open(&path).map(|mut nro| { nro.fix_bss_size(); nro }) on a readable
\* file that becomes plugins[k]
open_then_fix(entry, k) ==
    [plugin |-> PluginOk(fix_bss_size(entry.data), entry.name),
     events |-> <<Event("fix", k, fix_bss_size(entry.data))>>]

Call(fn, image, bss, size, flag, rc) ==
    [fn |-> fn, image |-> image, bss |-> bss, size |-> size, flag |-> flag, rc |-> rc]

Init ==
    /\ pc = "read_dir"
    /\ overflow_checks \in BOOLEAN
    /\ program_id \in ProgramIds
    /\ dir \in {[readable |-> TRUE, entries |-> s] : s \in Directories}
              \cup {[readable |-> FALSE, entries |-> <<>>]}
    /\ next_entry = 0
    /\ plugins = <<>>
    /\ heap = <<>>
    /\ nrr = NoNrr
    /\ submitted = NoNrr
    /\ calls = <<>>
    /\ modules = <<>>
    /\ result = NoResult
    /\ events = <<>>

\* std::fs::read_dir(path)?
ReadDir ==
    /\ pc = "read_dir"
    /\ IF dir.readable
       THEN pc' = "discover" /\ result' = result
       ELSE pc' = "done" /\ result' = IO
    /\ UNCHANGED <<overflow_checks, program_id, dir, next_entry, plugins, heap,
                   nrr, submitted, calls, modules, events>>

\* one turn of the loop over the directory: NroFile::open then fix_bss_size
Discover ==
    /\ pc = "discover"
    /\ next_entry < Len(dir.entries)
    /\ next_entry' = next_entry + 1
    /\ LET entry == dir.entries[next_entry + 1]
       IN  IF ~entry.entry_ok \/ ~entry.valid
           THEN pc' = pc /\ plugins' = plugins /\ events' = events
           ELSE IF ~entry.readable
           THEN pc' = pc /\ plugins' = push(plugins, PluginErr) /\ events' = events
           ELSE IF overflow_checks /\ FixOverflows(entry.data)
           THEN pc' = "panicked" /\ plugins' = plugins /\ events' = events
           ELSE LET opened == open_then_fix(entry, Len(plugins) + 1)
                IN  /\ pc' = pc
                    /\ plugins' = push(plugins, opened.plugin)
                    /\ events' = events \o opened.events
    /\ UNCHANGED <<overflow_checks, program_id, dir, heap, nrr, submitted, calls,
                   modules, result>>

\* the directory iterator is exhausted
EndOfDirectory ==
    /\ pc = "discover"
    /\ next_entry = Len(dir.entries)
    /\ pc' = "build"
    /\ UNCHANGED <<overflow_checks, program_id, dir, next_entry, plugins, heap,
                   nrr, submitted, calls, modules, result, events>>

\* the NRR image is sized, allocated zeroed and its header filled in
AllocDescriptor ==
    /\ pc = "build"
    /\ LET num_modules == CountOk(plugins)
           image_size == NrrImageSize(num_modules)
       IN  /\ heap' = alloc(heap, "nrr", image_size, <<>>)
           /\ nrr' = [ptr |-> Len(heap) + 1,
                      magic |-> NrrMagic,
                      program_id |-> program_id,
                      size |-> image_size,
                      type_ |-> 0,
                      hashes_offset |-> NrrHeaderSize,
                      num_hashes |-> num_modules,
                      shas |-> [k \in 1..num_modules |-> ZeroHash]]
    /\ pc' = "hash"
    /\ UNCHANGED <<overflow_checks, program_id, dir, next_entry, plugins,
                   submitted, calls, modules, result, events>>

\* every Ok plugin is hashed into the table, and the table is sorted
HashModules ==
    /\ pc = "hash"
    /\ nrr' = [nrr EXCEPT !.shas = sort(Hashes(plugins))]
    /\ events' = events \o [count \in 1..CountOk(plugins) |->
                                Event("hash", OkIndices(plugins)[count],
                                      plugins[OkIndices(plugins)[count]].data)]
    /\ pc' = "register"
    /\ UNCHANGED <<overflow_checks, program_id, dir, next_entry, plugins, heap,
                   submitted, calls, modules, result>>

\* a plausible slip: the status of the registration is not looked at
Rejected_ignored(rc) == FALSE

\* rc != 0
Rejected(rc) == rc # 0

\* nn::ro::RegisterModuleInfo(nrr_info, header)
RegisterModuleInfo ==
    /\ pc = "register"
    /\ \E rc \in RegisterStatus :
        /\ calls' = Append(calls, Call("RegisterModuleInfo", nrr.ptr, 0, 0, "", rc))
        /\ submitted' = nrr
        /\ events' = Append(events, Event("register", 0, <<>>))
        /\ IF Rejected(rc)
           THEN /\ heap' = dealloc(heap, nrr.ptr, nrr.size, "corrupt")
                /\ result' = RegistrationError(rc)
                /\ pc' = "done"
           ELSE /\ heap' = heap
                /\ result' = result
                /\ pc' = "mount"
    /\ UNCHANGED <<overflow_checks, program_id, dir, next_entry, plugins, nrr, modules>>

-----------------------------------------------------------------------------
(* NroFile::mount *)

\* Err(LoaderError::MountError(rc))
LoadFailure(rc) == MountError(rc)

\* a plausible slip: a failed size query ends the batch like a failed registration
AfterMount_abort(outcome) == IF outcome.tag = "Ok" \/ outcome.tag = "IO" THEN "mount" ELSE "done"

\* the map over plugins goes on to the next plugin whatever the outcome was
AfterMount(outcome) == "mount"

\* the heap, the calls and the outcome of NroFile::mount on `nro`, the runtime
\* answering GetBufferSize with (size_rc, size) and LoadModule with load_rc;
\* outcome.tag = "panic" when the copy of the name panics
MountNro(h, nro, size_rc, size, load_rc, ub) ==
    LET layout == Len(nro.data)
        image == Len(h) + 1
        h1 == alloc(h, "code", layout, nro.data)
        c1 == <<Call("GetBufferSize", image, 0, IF size_rc = 0 THEN size ELSE 0, "", size_rc)>>
    IN  IF size_rc # 0
        THEN [heap |-> dealloc(h1, image, layout, ub),
              calls |-> c1,
              outcome |-> ModuleErr(InvalidModuleBuffer(size_rc))]
        ELSE LET bss_size == size
                 bss_layout == bss_size
                 bss_memory == Len(h1) + 1
                 \* alloc::alloc(layout): the layout of the code image, not bss_layout
                 h2 == alloc(h1, "bss", layout, <<>>)
             IN  IF nro.name.len > NameCapacity
                 THEN [heap |-> h2, calls |-> c1,
                       outcome |-> [tag |-> "panic", code |-> 0, module |-> NoModule]]
                 ELSE LET module == [Name |-> nro.name, image |-> image, bss |-> bss_memory]
                          c2 == c1 \o <<Call("LoadModule", image, bss_memory, bss_size,
                                             "BindFlag_Lazy", load_rc)>>
                      IN  IF load_rc # 0
                          THEN [heap |-> dealloc(dealloc(h2, image, layout, ub),
                                                 bss_memory, bss_layout, ub),
                                calls |-> c2,
                                outcome |-> ModuleErr(LoadFailure(load_rc))]
                          ELSE [heap |-> transfer(transfer(h2, image), bss_memory),
                                calls |-> c2,
                                outcome |-> ModuleOk(module)]

\* one turn of plugins.into_iter().map(|plugin| plugin.and_then(NroFile::mount))
Mount ==
    /\ pc = "mount"
    /\ Len(modules) < Len(plugins)
    /\ LET plugin == plugins[Len(modules) + 1]
       IN  IF ~plugin.ok
           THEN /\ modules' = Append(modules, ModuleErr(IO))
                /\ pc' = AfterMount(ModuleErr(IO))
                /\ UNCHANGED <<heap, calls, events>>
           ELSE \E size_rc \in SizeStatus, size \in BssSizes, load_rc \in LoadStatus,
                   ub \in DeallocUB :
                  LET m == MountNro(heap, plugin, size_rc, size, load_rc, ub)
                  IN  /\ heap' = m.heap
                      /\ calls' = calls \o m.calls
                      /\ events' = events \o
                            [i \in 1..Len(m.calls) |->
                                Event(IF m.calls[i].fn = "GetBufferSize" THEN "size" ELSE "load",
                                      Len(modules) + 1, m.heap[m.calls[i].image].bytes)]
                      /\ IF m.outcome.tag = "panic"
                         THEN pc' = "panicked" /\ modules' = modules
                         ELSE pc' = AfterMount(m.outcome)
                              /\ modules' = Append(modules, m.outcome)
    /\ UNCHANGED <<overflow_checks, program_id, dir, next_entry, plugins, nrr,
                   submitted, result>>

\* Ok(MountInfo { modules, registration_info })
Return ==
    /\ pc = "mount"
    /\ Len(modules) = Len(plugins)
    /\ result' = ResultOk
    /\ pc' = "done"
    /\ UNCHANGED <<overflow_checks, program_id, dir, next_entry, plugins, heap,
                   nrr, submitted, calls, modules, events>>

Next ==
    \/ ReadDir
    \/ Discover
    \/ EndOfDirectory
    \/ AllocDescriptor
    \/ HashModules
    \/ RegisterModuleInfo
    \/ Mount
    \/ Return

Spec == Init /\ [][Next]_vars

-----------------------------------------------------------------------------
(* The fix-up on every image, each alone in its directory *)

InitFix ==
    /\ pc = "read_dir"
    /\ overflow_checks \in BOOLEAN
    /\ program_id \in ProgramIds
    /\ dir \in {[readable |-> TRUE, entries |-> <<File(data, ShortName("f.nro"))>>] :
                    data \in AllImages}
    /\ next_entry = 0
    /\ plugins = <<>>
    /\ heap = <<>>
    /\ nrr = NoNrr
    /\ submitted = NoNrr
    /\ calls = <<>>
    /\ modules = <<>>
    /\ result = NoResult
    /\ events = <<>>

SpecFix == InitFix /\ [][Next]_vars

-----------------------------------------------------------------------------
(* The NRR image of a large directory: mount_from_directory at the end of    *)
(* its loop over a directory of n readable plugins, after an unreadable one  *)
(* or not, and from there to the allocation of the NRR image                 *)

\* the n-th plugin file of a large directory (the files differ by their names)
NthFile(n) ==
    File(MkImage(8, <<0, 1, 0, 0>>, <<0, 0, 0, 0>>), [text |-> "p", len |-> n])

\* the plugin Discover pushes for a readable entry
Prepared(entry) == PluginOk(fix_bss_size(entry.data), entry.name)

InitNrr ==
    /\ pc = "discover"
    /\ overflow_checks \in BOOLEAN
    /\ program_id \in ProgramIds
    /\ \E n \in 0..MaxModules, unreadable \in 0..1 :
        /\ dir = [readable |-> TRUE,
                  entries |-> [i \in 1..unreadable |->
                                  Entry(TRUE, TRUE, FALSE, <<>>, ShortName("u.nro"))]
                              \o [i \in 1..n |-> NthFile(i)]]
        /\ next_entry = unreadable + n
        /\ plugins = [i \in 1..unreadable |-> PluginErr]
                     \o [i \in 1..n |-> Prepared(NthFile(i))]
        /\ events = [i \in 1..n |-> Event("fix", unreadable + i, Prepared(NthFile(i)).data)]
    /\ heap = <<>>
    /\ nrr = NoNrr
    /\ submitted = NoNrr
    /\ calls = <<>>
    /\ modules = <<>>
    /\ result = NoResult

NextNrr == EndOfDirectory \/ AllocDescriptor

SpecNrr == InitNrr /\ [][NextNrr]_vars

-----------------------------------------------------------------------------
(* What the claims are stated with *)

IsCandidate(entry) == entry.entry_ok /\ entry.valid

\* the entries that pass the filter, in enumeration order
Candidates == SelectSeq(dir.entries, IsCandidate)

IsReadable(entry) == entry.readable

IsSizeCall(c) == c.fn = "GetBufferSize"
IsLoadCall(c) == c.fn = "LoadModule"
IsRegisterCall(c) == c.fn = "RegisterModuleInfo"

SizeCalls == SelectSeq(calls, IsSizeCall)
LoadCalls == SelectSeq(calls, IsLoadCall)
RegisterCalls == SelectSeq(calls, IsRegisterCall)

\* the GetBufferSize call made for plugins[k], an Ok plugin that was mounted:
\* the calls are made in the order of the Ok plugins
SizeCallOf(k) == SizeCalls[CountOk(SubSeq(plugins, 1, k))]

\* the blocks the runtime was given by a successful LoadModule
Loaded == {c.image : c \in {calls[i] : i \in {j \in DOMAIN calls : IsLoadCall(calls[j]) /\ calls[j].rc = 0}}}
          \cup {c.bss : c \in {calls[i] : i \in {j \in DOMAIN calls : IsLoadCall(calls[j]) /\ calls[j].rc = 0}}}

MountBlocks == {ptr \in DOMAIN heap : heap[ptr].kind \in {"code", "bss"}}
NrrBlocks == {ptr \in DOMAIN heap : heap[ptr].kind = "nrr"}

Accepted == \E i \in DOMAIN calls : IsRegisterCall(calls[i]) /\ calls[i].rc = 0
RejectedWith(rc) == \E i \in DOMAIN calls : IsRegisterCall(calls[i]) /\ calls[i].rc = rc /\ rc # 0

IsSorted(shas) == \A i \in 1..(Len(shas) - 1) : shas[i] = shas[i + 1] \/ HashLess(shas[i], shas[i + 1])

Occurrences(seq, x) == Cardinality({i \in DOMAIN seq : seq[i] = x})

SameMultiset(s, t) ==
    /\ Len(s) = Len(t)
    /\ \A i \in DOMAIN s : Occurrences(s, s[i]) = Occurrences(t, s[i])

\* x rounded up to a multiple of a, by division
RoundUp(x, a) == ((x + a - 1) \div a) * a

\* the two 16-bit halves of a little-endian u32
Lo(w) == w[1] + 256 * w[2]
Hi(w) == w[3] + 256 * w[4]

\* new = old + 0xD0 as u32
AdvancedByFixup(old, new) ==
    /\ Lo(new) = (Lo(old) + BssFixup) % 65536
    /\ Hi(new) = (Hi(old) + (Lo(old) + BssFixup) \div 65536) % 65536

-----------------------------------------------------------------------------
(* Claims *)

\* C1: when a mount has returned, each block it allocated (code image,
\* scratch segment) is in one of two states: given to the runtime, which
\* happens only when the mount returned Ok, or released exactly once, which
\* is the case whenever the mount returned Err.  (A mount that panicked has
\* not returned; every other mount of the run has.)
C1_MountBlocksTransferredOrReleased ==
    pc # "panicked" =>
        \A ptr \in MountBlocks :
            IF ptr \in Loaded
            THEN heap[ptr].state = "transferred" /\ heap[ptr].frees = 0
            ELSE heap[ptr].state = "released" /\ heap[ptr].frees = 1

\* C2: a registration rejected with status rc makes mount_from_directory
\* return Err(RegistrationError(rc)), and then no code or scratch block was
\* allocated, neither GetBufferSize nor LoadModule was called and no module
\* was mounted, whatever the number of candidates.
C2_RejectedRegistrationMountsNothing ==
    \A i \in DOMAIN calls :
        (IsRegisterCall(calls[i]) /\ calls[i].rc # 0) =>
            /\ pc = "done"
            /\ result = RegistrationError(calls[i].rc)
            /\ Len(calls) = 1
            /\ MountBlocks = {}
            /\ modules = <<>>

\* C2 witness: a rejected registration of a directory with two readable plugins
C2_Witness ==
    /\ \E rc \in RegisterStatus : RejectedWith(rc)
    /\ CountOk(plugins) >= 2
    /\ pc = "done"

\* C3: after an accepted registration every plugin gets its slot, and the
\* slot of an Ok plugin is decided by the statuses of its own two calls
\* alone: Err(InvalidModuleBuffer(rc)) with the rc of its size query,
\* Err(MountError(rc)) with the rc of its LoadModule, Ok when both were 0.
C3_SlotDecidedByOwnCalls ==
    /\ (pc = "done" /\ Accepted) => Len(modules) = Len(plugins)
    /\ \A k \in DOMAIN modules :
          plugins[k].ok =>
              LET sc == SizeCallOf(k)
                  lcs == {i \in DOMAIN calls : IsLoadCall(calls[i]) /\ calls[i].image = sc.image}
              IN  IF sc.rc # 0
                  THEN modules[k] = ModuleErr(InvalidModuleBuffer(sc.rc)) /\ lcs = {}
                  ELSE /\ Cardinality(lcs) = 1
                       /\ \A i \in lcs :
                            IF calls[i].rc # 0
                            THEN modules[k] = ModuleErr(MountError(calls[i].rc))
                            ELSE /\ modules[k].tag = "Ok"
                                 /\ modules[k].module.image = sc.image
                                 /\ modules[k].module.Name = plugins[k].name

\* C3 witness: a finished batch in which a plugin failed its size query,
\* another failed its load, and a plugin after both was mounted
C3_Witness ==
    /\ pc = "done" /\ result = ResultOk
    /\ \E i, j, k \in DOMAIN modules :
        /\ i < k /\ j < k
        /\ modules[i].tag = "InvalidModuleBuffer" /\ modules[i].code = 25
        /\ modules[j].tag = "MountError" /\ modules[j].code = 42
        /\ modules[k].tag = "Ok"

\* C4: the table RegisterModuleInfo receives is sorted ascending and holds,
\* as a multiset, the hashes of the images that were opened: one per readable
\* candidate, none for the others, and num_hashes is that number.
C4_SubmittedTableSortedAndComplete ==
    submitted # NoNrr =>
        /\ IsSorted(submitted.shas)
        /\ SameMultiset(submitted.shas, Hashes(plugins))
        /\ submitted.num_hashes = Len(submitted.shas)
        /\ submitted.num_hashes = Len(SelectSeq(Candidates, IsReadable))
        /\ Len(plugins) = Len(Candidates)
        /\ \A k \in DOMAIN plugins : plugins[k].ok = Candidates[k].readable

\* C4 witness: a table of two hashes submitted for a directory in which one
\* file could not be opened and the other two were discovered in descending
\* order of their hashes
C4_Witness ==
    /\ submitted # NoNrr
    /\ submitted.num_hashes = 2
    /\ ~IsSorted(Hashes(plugins))
    /\ \E k \in DOMAIN plugins : ~plugins[k].ok

\* C5: for N opened images the size field of the NRR header is
\* roundUp(headerSize + N * 32, 4096), it is the size of the block allocated
\* for the NRR image, a multiple of 4096 and enough for the header and the N
\* hashes; hashes_offset is headerSize.
C5_NrrSize ==
    nrr # NoNrr =>
        LET N == CountOk(plugins)
        IN  /\ nrr.size = RoundUp(NrrHeaderSize + N * 32, 4096)
            /\ heap[nrr.ptr].kind = "nrr"
            /\ heap[nrr.ptr].size = nrr.size
            /\ heap[nrr.ptr].align = 4096
            /\ nrr.size % 4096 = 0
            /\ nrr.size >= NrrHeaderSize + N * 32
            /\ nrr.size < NrrHeaderSize + N * 32 + 4096
            /\ nrr.hashes_offset = NrrHeaderSize
            /\ nrr.num_hashes = N

\* C5 witness: an NRR image for more hashes than fit the first page with the header
C5_Witness ==
    /\ nrr # NoNrr
    /\ CountOk(plugins) > 101
    /\ nrr.size = 2 * 4096

\* C6: when mount_from_directory returns Ok, modules has one outcome per
\* candidate, in enumeration order: the slot of an unreadable candidate is an
\* I/O error, the slot of a readable one is the outcome of mounting that
\* file; and blocks were allocated and the runtime called for the readable
\* candidates only.
C6_OutcomesInDiscoveryOrder ==
    (pc = "done" /\ result = ResultOk) =>
        /\ Len(modules) = Len(Candidates)
        /\ \A k \in DOMAIN modules :
              IF ~Candidates[k].readable
              THEN modules[k] = ModuleErr(IO)
              ELSE /\ modules[k].tag \in {"Ok", "InvalidModuleBuffer", "MountError"}
                   /\ plugins[k].name = Candidates[k].name
                   /\ heap[SizeCallOf(k).image].bytes = plugins[k].data
                   /\ modules[k].tag = "Ok" =>
                        /\ modules[k].module.Name = Candidates[k].name
                        /\ modules[k].module.image = SizeCallOf(k).image
        /\ Len(SizeCalls) = Len(SelectSeq(Candidates, IsReadable))
        /\ Cardinality({ptr \in DOMAIN heap : heap[ptr].kind = "code"})
              = Len(SelectSeq(Candidates, IsReadable))
        /\ Len(LoadCalls) <= Len(SizeCalls)

\* C6 witness: a returned batch of three candidates, the first unreadable,
\* the last mounted, whose discovery order is not the order of the hashes
C6_Witness ==
    /\ pc = "done" /\ result = ResultOk
    /\ Len(modules) = 3
    /\ modules[1].tag = "IO"
    /\ modules[3].tag = "Ok"
    /\ ~IsSorted(Hashes(plugins))

\* C7: fix_bss_size leaves an image whose bss_end_offset and
\* module_object_offset differ as it was, byte for byte; when they are equal
\* bss_end_offset becomes its value + 0xD0 (as u32) and every other byte of
\* the image stays.
C7_FixBssSize ==
    \A k \in DOMAIN plugins :
        plugins[k].ok =>
            LET old == Candidates[k].data
                new == plugins[k].data
                field == BssEndField(old)
            IN  IF ReadU32(old, field) = ReadU32(old, ModuleObjectField(old))
                THEN /\ Len(new) = Len(old)
                     /\ AdvancedByFixup(ReadU32(old, field), ReadU32(new, field))
                     /\ \A i \in DOMAIN old :
                            (i <= field \/ i > field + 4) => new[i] = old[i]
                ELSE new = old

\* C7 witness: an image with equal fields was fixed, the addition carrying
\* into the second byte of the field
C7_Witness ==
    \E k \in DOMAIN plugins :
        /\ plugins[k].ok
        /\ plugins[k].data # Candidates[k].data
        /\ ReadU32(Candidates[k].data, BssEndField(Candidates[k].data)) = <<255, 0, 0, 0>>
        /\ ReadU32(plugins[k].data, BssEndField(Candidates[k].data)) = <<207, 1, 0, 0>>

\* C8: the failure of one image never leaves mount_from_directory other than
\* as a value in modules: no mount ends in a panic, and once the directory
\* was opened and the registration accepted, mount_from_directory returns Ok
\* with one outcome per candidate.
C8_ImageFailuresAreValues ==
    /\ ~(pc = "panicked" /\ submitted # NoNrr)
    /\ (pc = "done" /\ dir.readable /\ Accepted) =>
          result = ResultOk /\ Len(modules) = Len(Candidates)

\* C9: every block allocated for an NRR image is released, exactly once, by
\* the time mount_from_directory has returned, the registration rejected or
\* accepted.
C9_NrrImageReleased ==
    pc = "done" =>
        \A ptr \in NrrBlocks : heap[ptr].state = "released" /\ heap[ptr].frees = 1

\* C10: the scratch block has the size GetBufferSize reported, which is the
\* size handed to LoadModule, and a block is released with the layout it was
\* allocated with.
C10_ScratchSizedAsQueried ==
    /\ \A i \in DOMAIN calls :
          IsLoadCall(calls[i]) =>
              /\ heap[calls[i].bss].kind = "bss"
              /\ heap[calls[i].bss].size = calls[i].size
              /\ \E j \in 1..(i - 1) :
                    /\ IsSizeCall(calls[j])
                    /\ calls[j].image = calls[i].image
                    /\ calls[j].size = calls[i].size
    /\ \A ptr \in DOMAIN heap :
          heap[ptr].frees > 0 => heap[ptr].free_size = heap[ptr].size

\* the blocks of the mount whose GetBufferSize call is calls[i]: the code block
\* and, when the mount went on to allocate it, the scratch block after it
BlocksOfMount(i) ==
    {calls[i].image}
    \cup {ptr \in DOMAIN heap : ptr = calls[i].image + 1 /\ heap[ptr].kind = "bss"}

\* C11 (the size query): a size query answered with a non-zero rc has the code
\* block released exactly once, with its own layout, no scratch block
\* allocated and LoadModule not called for that image, and the slot of the
\* image is Err(InvalidModuleBuffer(rc)).
C11_SizeQueryFailure ==
    /\ \A i \in DOMAIN calls :
          (IsSizeCall(calls[i]) /\ calls[i].rc # 0) =>
              /\ BlocksOfMount(i) = {calls[i].image}
              /\ heap[calls[i].image].state = "released"
              /\ heap[calls[i].image].frees = 1
              /\ heap[calls[i].image].free_size = heap[calls[i].image].size
              /\ \A j \in DOMAIN calls : IsLoadCall(calls[j]) => calls[j].image # calls[i].image
    /\ \A k \in DOMAIN modules :
          (plugins[k].ok /\ SizeCallOf(k).rc # 0) =>
              modules[k] = ModuleErr(InvalidModuleBuffer(SizeCallOf(k).rc))

\* C11: the size query as above, and wherever a mount fails, the allocations
\* it has made at that point, and no others, are handed to dealloc, once each.
C11_CleanupAtFailurePoint ==
    /\ C11_SizeQueryFailure
    /\ \A i \in DOMAIN calls :
          IsSizeCall(calls[i]) =>
              \A ptr \in BlocksOfMount(i) :
                  heap[ptr].frees = (IF ptr \in Loaded THEN 0 ELSE 1)
    /\ \A ptr \in NrrBlocks : Accepted => heap[ptr].frees = 0

\* the positions in events of the steps `ev` taken on plugins[who]
StepsOf(ev, who) == {i \in DOMAIN events : events[i].ev = ev /\ events[i].who = who}

\* the positions in events of the steps `ev`
Steps(ev) == {i \in DOMAIN events : events[i].ev = ev}

\* the directory was opened and the run is past the registration call
PastRegistration ==
    \/ pc = "mount"
    \/ pc = "done" /\ dir.readable
    \/ pc = "panicked" /\ submitted # NoNrr

\* C12: the fix-up is applied exactly once to each image that was opened (and
\* to nothing else), before the image is hashed and before its size query and
\* its load; the registration call is made once per batch, after every opened
\* image was hashed and before the first size query or load of any image.
C12_FixThenHashThenRegisterThenMount ==
    /\ \A k \in DOMAIN plugins :
          Cardinality(StepsOf("fix", k)) = (IF plugins[k].ok THEN 1 ELSE 0)
    /\ \A i \in Steps("fix") : events[i].who \in DOMAIN plugins
    /\ \A j \in Steps("hash") \cup Steps("size") \cup Steps("load") :
          \E i \in StepsOf("fix", events[j].who) : i < j
    /\ Cardinality(Steps("register")) <= 1
    /\ PastRegistration => Cardinality(Steps("register")) = 1
    /\ Cardinality(Steps("register")) = Len(RegisterCalls)
    /\ \A r \in Steps("register") :
          /\ \A k \in DOMAIN plugins :
                plugins[k].ok => \E j \in StepsOf("hash", k) : j < r
          /\ \A j \in Steps("hash") : j < r
    /\ \A j \in Steps("size") \cup Steps("load") :
          \E r \in Steps("register") : r < j

\* C12 witness: a returned batch in which two images were fixed, hashed and,
\* after the registration, queried and loaded, beside a file that could not be
\* opened
C12_Witness ==
    /\ pc = "done" /\ result = ResultOk
    /\ Cardinality(Steps("fix")) = 2
    /\ Cardinality(Steps("hash")) = 2
    /\ Cardinality(Steps("load")) = 2
    /\ \E k \in DOMAIN plugins : ~plugins[k].ok

\* the plugins a step `ev` was taken on
Stepped(ev) == {events[i].who : i \in Steps(ev)}

InTable(hash, table) == \E i \in DOMAIN table : table[i] = hash

\* the bytes a mount works on are the bytes that were hashed
MountedBytesAreHashedBytes ==
    /\ Stepped("size") \subseteq Stepped("hash")
    /\ Stepped("load") \subseteq Stepped("size")
    /\ (pc = "done" /\ result = ResultOk) => Stepped("size") = Stepped("hash")
    /\ submitted # NoNrr => Stepped("hash") = {k \in DOMAIN plugins : plugins[k].ok}
    /\ \A j \in Steps("size") \cup Steps("load") :
          /\ \E i \in StepsOf("hash", events[j].who) :
                i < j /\ events[i].data = events[j].data
          /\ events[j].data = plugins[events[j].who].data
    /\ \A k \in DOMAIN modules :
          modules[k].tag = "Ok" =>
              heap[modules[k].module.image].bytes = plugins[k].data

\* the step that submits the table submits the hash of every Ok plugin, and
\* from then on neither the table nor the images change
HashedIntoSubmittedTable ==
    /\ submitted' # submitted =>
          \A k \in DOMAIN plugins' :
              plugins'[k].ok =>
                  InTable(Sha256HashNew(plugins'[k].data), submitted'.shas)
    /\ submitted # NoNrr => (submitted' = submitted /\ plugins' = plugins)

\* C13: a mount is attempted only for images that were hashed into the
\* submitted table, and for all of them once mount_from_directory returns Ok;
\* the bytes in the code block handed to GetBufferSize and LoadModule are the
\* bytes that were hashed, so the hash of every image mounted, and of every
\* module loaded, is in the table that was registered.
C13_MountedImagesAreTheHashedImages ==
    []MountedBytesAreHashedBytes /\ [][HashedIntoSubmittedTable]_vars

\* C13 witness: a returned batch with two images hashed and both loaded,
\* beside a file that could not be opened
C13_Witness ==
    /\ pc = "done" /\ result = ResultOk
    /\ Cardinality(Stepped("hash")) = 2
    /\ Cardinality({k \in DOMAIN modules : modules[k].tag = "Ok"}) = 2
    /\ \E k \in DOMAIN plugins : ~plugins[k].ok
    /\ submitted.shas[1] # submitted.shas[2]

-----------------------------------------------------------------------------
(* fix_bss_size applied again to an image, each image alone *)

\* an image as NroFile::open returns it, before any fix-up
InitIdem ==
    /\ pc = "fix"
    /\ overflow_checks \in BOOLEAN
    /\ program_id \in ProgramIds
    /\ dir \in {[readable |-> TRUE, entries |-> <<File(data, ShortName("f.nro"))>>] :
                    data \in AllImages}
    /\ next_entry = 1
    /\ plugins = <<PluginOk(dir.entries[1].data, dir.entries[1].name)>>
    /\ heap = <<>>
    /\ nrr = NoNrr
    /\ submitted = NoNrr
    /\ calls = <<>>
    /\ modules = <<>>
    /\ result = NoResult
    /\ events = <<>>

\* nro.fix_bss_size(), on the image as the previous application left it
FixBssSize ==
    /\ pc = "fix"
    /\ Len(events) < MaxFixes
    /\ IF overflow_checks /\ FixOverflows(plugins[1].data)
       THEN /\ pc' = "panicked"
            /\ UNCHANGED <<plugins, events>>
       ELSE /\ pc' = pc
            /\ plugins' = [plugins EXCEPT ![1].data = fix_bss_size(@)]
            /\ events' = Append(events, Event("fix", 1, fix_bss_size(plugins[1].data)))
    /\ UNCHANGED <<overflow_checks, program_id, dir, next_entry, heap, nrr,
                   submitted, calls, modules, result>>

NextIdem == FixBssSize

SpecIdem == InitIdem /\ [][NextIdem]_vars

\* C14: fix_bss_size is idempotent: every application after the first leaves
\* the image the first one made, because after an application that returned
\* the bss_end_offset field differs from the module_object_offset field, also
\* when the addition of 0xD0 wrapped around.
C14_FixBssSizeIdempotent ==
    /\ \A i \in Steps("fix") :
          /\ events[i].data = events[1].data
          /\ ReadU32(events[i].data, BssEndField(events[i].data))
                # ReadU32(events[i].data, ModuleObjectField(events[i].data))
    /\ events # <<>> => plugins[1].data = events[1].data

\* C14 witness: the image whose equal fields hold 0xFFFFFF30 was fixed twice
\* in a build without overflow checks: the field wrapped to 0 the first time
\* and stayed 0 the second time
C14_Witness ==
    /\ ~overflow_checks
    /\ Len(events) = 2
    /\ ReadU32(dir.entries[1].data, BssEndField(dir.entries[1].data)) = <<48, 255, 255, 255>>
    /\ ReadU32(dir.entries[1].data, ModuleObjectField(dir.entries[1].data)) = <<48, 255, 255, 255>>
    /\ ReadU32(events[1].data, BssEndField(events[1].data)) = <<0, 0, 0, 0>>
    /\ plugins[1].data = events[1].data

====
